---- MODULE Spec2Model ----
(***************************************************************************)
(* A model of src/solutions/interpreter.py: the bytecode interpreter       *)
(* (step, handle_method_invocation, handle_string_method) and the driver   *)
(* loop that runs it for at most 1000 steps and prints one outcome.        *)
(*                                                                         *)
(* Python strings are sequences of one-character strings, so that len,     *)
(* indexing, slicing, "in" and + are computed as Python computes them.     *)
(* A Python exception that leaves step (IndexError, AssertionError,        *)
(* NotImplementedError, RuntimeError, TypeError) is the result "raise":    *)
(* the interpreter process dies with a traceback and prints no outcome.    *)
(***************************************************************************)
EXTENDS Integers, Sequences, FiniteSets, TLC

VARIABLES
    methodid,   \* jpamb.getcase(): the entry method (line 11)
    input,      \* jpamb.getcase(): the argument values (line 11)
    methods,    \* bc.methods: the set of methods whose opcodes are cached
    requested,  \* the calls made to suite.method_opcodes, in order
    heap,       \* state.heap
    frames,     \* state.frames.items, innermost frame last
    state,      \* the driver's variable state: "State", or the str step returned
    x,          \* iterations of the driver loop started so far
    out,        \* the lines printed
    driver,     \* "loop" | "done" | "aborted" (an exception left step)
    opr,        \* the instruction decoded by the last step (line 102)
    before      \* history: state.frames.items when the last step was entered

vars == <<methodid, input, methods, requested, heap, frames, state, x, out,
          driver, opr, before>>

----------------------------------------------------------------------------
(* Bounds of the model. *)

\* Integer constants and arguments range over -MaxInt .. MaxInt.
MaxInt == 7
\* Texts are the strings over Alphabet of length 0 .. MaxStrLen.
MaxStrLen == 2

\* range(1000) of the driver loop.
StepBound == 1000

Alphabet == {"a", "b"}

----------------------------------------------------------------------------
(* Values: jvm.Value(type, value).  kind tells what the Python payload is: *)
(* an int (i), a bool (i is 0 or 1, as bool is a subclass of int), a str   *)
(* (s) or None.                                                            *)

IntV(n)  == [type |-> "int", kind |-> "int", i |-> n, s |-> <<>>]
BoolV(b) == [type |-> "boolean", kind |-> "bool", i |-> IF b THEN 1 ELSE 0, s |-> <<>>]
CharV(c) == [type |-> "char", kind |-> "str", i |-> 0, s |-> c]
RefV(t)  == [type |-> "ref", kind |-> "str", i |-> 0, s |-> t]
NoneV(t) == [type |-> t, kind |-> "none", i |-> 0, s |-> <<>>]

IsNone(v) == v.kind = "none"

----------------------------------------------------------------------------
(* Python integer and string primitives. *)

\* The quotient rounded toward zero, in place of Python's //.
PyFloorDiv_Truncating(a, b) ==
    IF (a < 0) = (b < 0) THEN (IF a < 0 THEN -a ELSE a) \div (IF b < 0 THEN -b ELSE b)
    ELSE -((IF a < 0 THEN -a ELSE a) \div (IF b < 0 THEN -b ELSE b))

\* a // b: the quotient rounded toward minus infinity.
PyFloorDiv(a, b) ==
    IF b > 0 THEN a \div b ELSE (-a) \div (-b)

\* a % b: the remainder with the sign of the divisor.
PyMod(a, b) ==
    IF b > 0 THEN a % b ELSE -((-a) % (-b))

Min(a, b) == IF a < b THEN a ELSE b
Max(a, b) == IF a > b THEN a ELSE b

\* s[i] for 0 <= i < len(s) (0-based).
PyIndex(s, i) == <<s[i + 1]>>

\* An index of a slice, as Python adjusts it: negative counts from the
\* end, and the result is clamped to 0 .. len(s).
SliceBound(s, i) ==
    IF i < 0 THEN Max(Len(s) + i, 0) ELSE Min(i, Len(s))

\* s[b:e]
PySlice(s, b, e) ==
    LET lo == SliceBound(s, b)
        hi == SliceBound(s, e)
    IN  IF lo >= hi THEN <<>> ELSE SubSeq(s, lo + 1, hi)

\* s[b:]
PySliceFrom(s, b) == PySlice(s, b, Len(s))

\* The greatest 0-based position at which t occurs in s, or -1.
PyFind_Last(t, s) ==
    LET hits == {k \in 0 .. (Len(s) - Len(t)) : SubSeq(s, k + 1, k + Len(t)) = t}
    IN  IF hits = {} THEN -1
        ELSE CHOOSE k \in hits : \A j \in hits : k >= j

\* s.find(t): the least 0-based position at which t occurs in s, or -1.
PyFind(t, s) ==
    LET hits == {k \in 0 .. (Len(s) - Len(t)) : SubSeq(s, k + 1, k + Len(t)) = t}
    IN  IF hits = {} THEN -1
        ELSE CHOOSE k \in hits : \A j \in hits : k <= j

\* t in s
PyIn(t, s) == PyFind(t, s) >= 0

\* s.endswith(t)
PyEndsWith(s, t) ==
    /\ Len(t) <= Len(s)
    /\ SubSeq(s, Len(s) - Len(t) + 1, Len(s)) = t

Digit(d) == <<"0", "1", "2", "3", "4", "5", "6", "7", "8", "9">>[d + 1]

RECURSIVE NatStr(_)
NatStr(n) ==
    IF n < 10 THEN <<Digit(n)>> ELSE NatStr(n \div 10) \o <<Digit(n % 10)>>

\* str(v.value)
PyStr(v) ==
    CASE v.kind = "str"  -> v.s
      [] v.kind = "int"  -> IF v.i < 0 THEN <<"-">> \o NatStr(-v.i) ELSE NatStr(v.i)
      [] v.kind = "bool" -> IF v.i = 1 THEN <<"T", "r", "u", "e">>
                            ELSE <<"F", "a", "l", "s", "e">>
      [] v.kind = "none" -> <<"N", "o", "n", "e">>

\* The printable ASCII characters, in code point order from 32 (the double
\* quote, the backslash and the backtick, which no text of the model
\* holds, by name).
Ascii ==
    <<
       " ", "!", "DQUOTE", "#", "$", "%", "&", "'", "(", ")", "*", "+", ",", "-", ".", "/",
       "0", "1", "2", "3", "4", "5", "6", "7", "8", "9", ":", ";", "<", "=", ">", "?",
       "@", "A", "B", "C", "D", "E", "F", "G", "H", "I", "J", "K", "L", "M", "N", "O",
       "P", "Q", "R", "S", "T", "U", "V", "W", "X", "Y", "Z", "[", "BACKSLASH", "]", "^", "_",
       "BACKTICK", "a", "b", "c", "d", "e", "f", "g", "h", "i", "j", "k", "l", "m", "n", "o",
       "p", "q", "r", "s", "t", "u", "v", "w", "x", "y", "z", "{", "|", "}", "~"
    >>

\* ord(c) for a one-character string c.
Ord(c) ==
    31 + (CHOOSE k \in 1 .. Len(Ascii) : Ascii[k] = c[1])

AssertionErrorStr ==
    <<"A", "s", "s", "e", "r", "t", "i", "o", "n", "E", "r", "r", "o", "r">>
StringStr == <<"S", "t", "r", "i", "n", "g">>
ObjectPrefix == <<"O", "b", "j", "e", "c", "t", ":">>

----------------------------------------------------------------------------
(* Python ints of any size.  A Python int has no width; those that do not *)
(* fit the model checker's integers are held as a sign and a magnitude:   *)
(* the magnitude is the sequence of its digits in base 2^15, the least    *)
(* significant first and the most significant not 0 (empty for 0).        *)

Base == 2 ^ 15

\* jvm.Value.int(n) for such an n: i is -1 for a negative payload and 1
\* otherwise, s is the magnitude.
BigV(neg, mag) ==
    [type |-> "int", kind |-> "int",
     i |-> IF neg /\ mag # <<>> THEN -1 ELSE 1, s |-> mag]

IsNeg(v) == v.i < 0

RECURSIVE Norm(_)
Norm(mag) ==
    IF mag = <<>> THEN <<>>
    ELSE IF mag[Len(mag)] = 0 THEN Norm(SubSeq(mag, 1, Len(mag) - 1))
    ELSE mag

Digit0(mag) == IF mag = <<>> THEN 0 ELSE Head(mag)
Rest(mag)   == IF mag = <<>> THEN <<>> ELSE Tail(mag)

\* |a| + |b| + c
RECURSIVE MagAdd(_, _, _)
MagAdd(a, b, c) ==
    IF a = <<>> /\ b = <<>> THEN (IF c = 0 THEN <<>> ELSE <<c>>)
    ELSE LET d == Digit0(a) + Digit0(b) + c
         IN  <<d % Base>> \o MagAdd(Rest(a), Rest(b), d \div Base)

\* |a| - |b| - c where |a| >= |b| + c, before the leading zeros are dropped
RECURSIVE MagSub(_, _, _)
MagSub(a, b, c) ==
    IF a = <<>> THEN <<>>
    ELSE LET d == Digit0(a) - Digit0(b) - c
         IN  IF d < 0 THEN <<d + Base>> \o MagSub(Rest(a), Rest(b), 1)
             ELSE <<d>> \o MagSub(Rest(a), Rest(b), 0)

\* |a| < |b|
RECURSIVE MagLess(_, _)
MagLess(a, b) ==
    IF Len(a) # Len(b) THEN Len(a) < Len(b)
    ELSE IF a = <<>> THEN FALSE
    ELSE IF a[Len(a)] # b[Len(b)] THEN a[Len(a)] < b[Len(b)]
    ELSE MagLess(SubSeq(a, 1, Len(a) - 1), SubSeq(b, 1, Len(b) - 1))

\* |a| * d + c for one digit d
RECURSIVE MagMulDigit(_, _, _)
MagMulDigit(a, d, c) ==
    IF a = <<>> THEN (IF c = 0 THEN <<>> ELSE <<c>>)
    ELSE LET e == Head(a) * d + c
         IN  <<e % Base>> \o MagMulDigit(Tail(a), d, e \div Base)

\* |a| * |b|
RECURSIVE MagMul(_, _)
MagMul(a, b) ==
    IF b = <<>> THEN <<>>
    ELSE Norm(MagAdd(MagMulDigit(a, Head(b), 0), <<0>> \o MagMul(a, Tail(b)), 0))

\* a + b of two Python ints
BigSum(a, b) ==
    IF IsNeg(a) = IsNeg(b) THEN BigV(IsNeg(a), MagAdd(a.s, b.s, 0))
    ELSE IF MagLess(a.s, b.s) THEN BigV(IsNeg(b), Norm(MagSub(b.s, a.s, 0)))
    ELSE BigV(IsNeg(a), Norm(MagSub(a.s, b.s, 0)))

\* -a
BigNeg(a) == BigV(~IsNeg(a), a.s)

\* The int of the same residue modulo 2^32 within -2^31 .. 2^31 - 1.
Wrap32(v) ==
    LET low == Norm(<<Digit0(v.s), Digit0(Rest(v.s)), Digit0(Rest(Rest(v.s))) % 4>>)
        u   == IF IsNeg(v) /\ low # <<>> THEN Norm(MagSub(<<0, 0, 4>>, low, 0))
               ELSE low
    IN  IF MagLess(u, <<0, 0, 2>>) THEN BigV(FALSE, u)
        ELSE BigV(TRUE, Norm(MagSub(<<0, 0, 4>>, u, 0)))

\* An addition that wraps around at 32 bits.
BigAdd_Wrapping(a, b) == Wrap32(BigSum(a, b))

\* Line 145: v1.value + v2.value
BigAdd(a, b) == BigSum(a, b)

\* Line 147: v1.value - v2.value
BigSub(a, b) == BigSum(a, BigNeg(b))

\* Line 149: v1.value * v2.value
BigMul(a, b) == BigV(IsNeg(a) # IsNeg(b), MagMul(a.s, b.s))

\* Operands within the signed 32-bit range: its ends, the values next to
\* them, 0 and its neighbours, and the square roots of the ends.
BigOperands ==
    << BigV(TRUE, <<0, 0, 2>>),             \* -2147483648
       BigV(TRUE, <<32767, 32767, 1>>),     \* -2147483647
       BigV(TRUE, <<0, 2>>),                \* -65536
       BigV(TRUE, <<1>>),                   \* -1
       BigV(FALSE, <<>>),                   \* 0
       BigV(FALSE, <<1>>),                  \* 1
       BigV(FALSE, <<2>>),                  \* 2
       BigV(FALSE, <<13573, 1>>),           \* 46341
       BigV(FALSE, <<0, 2>>),               \* 65536
       BigV(FALSE, <<32767, 32767, 1>>) >>  \* 2147483647

----------------------------------------------------------------------------
(* Instructions: the jvm.Opcode variants that step matches on. *)

Push(v)        == [op |-> "push", value |-> v]
Load(t, i)     == [op |-> "load", type |-> t, index |-> i]
Store(t, i)    == [op |-> "store", type |-> t, index |-> i]
Binary(t, o)   == [op |-> "binary", type |-> t, operant |-> o]
Ifz(c, target) == [op |-> "ifz", condition |-> c, target |-> target]
If(c, target)  == [op |-> "if", condition |-> c, target |-> target]
Goto(target)   == [op |-> "goto", target |-> target]
New(cn)        == [op |-> "new", classname |-> cn]
Dup(w)         == [op |-> "dup", words |-> w]
Get(st, name)  == [op |-> "get", static |-> st, field |-> name]
Throw          == [op |-> "throw"]
InvokeVirtual(m) == [op |-> "invokevirtual", method |-> m]
InvokeStatic(m)  == [op |-> "invokestatic", method |-> m]
InvokeSpecial(m) == [op |-> "invokespecial", method |-> m]
\* type is "none" for a void return (t is None).
Return(t)      == [op |-> "return", type |-> t]
\* An opcode step has no case for.
ArrayLength    == [op |-> "arraylength"]

\* jvm.AbsMethodID: classname, methodid.name, methodid.params and
\* methodid.return_type.
MethodRef(cn, name, params, rt) ==
    [classname |-> cn, name |-> name, params |-> params, return_type |-> rt]

JavaLangString ==
    <<"j", "a", "v", "a", "/", "l", "a", "n", "g", "/">> \o StringStr
JavaLangAssertionError ==
    <<"j", "a", "v", "a", "/", "l", "a", "n", "g", "/">> \o AssertionErrorStr
JavaLangObject ==
    <<"j", "a", "v", "a", "/", "l", "a", "n", "g", "/", "O", "b", "j", "e", "c", "t">>

BinaryOprs == {"add", "sub", "mul", "div", "rem"}
Conditions == {"eq", "ne", "lt", "le", "gt", "ge"}

----------------------------------------------------------------------------
(* The cases the harness can hand over: an entry method of the suite and   *)
(* its argument values.  A method is named by its family, its integer      *)
(* parameters p and a selector; method_opcodes gives its instructions.     *)

Ints    == (-MaxInt) .. MaxInt
Indices == (-1) .. (MaxStrLen + 1)
Texts   == UNION {[1 .. n -> Alphabet] : n \in 0 .. MaxStrLen}
Chars   == {<<c>> : c \in Alphabet}

\* A Reference argument: a text or null.
RefArgs == {RefV(t) : t \in Texts} \cup {NoneV("ref")}

LoadTypes == {"int", "boolean", "char", "ref", "object"}

Mid(fam, p, sel) == [fam |-> fam, p |-> p, sel |-> sel]

StringMethod(name, params, rt) == MethodRef(JavaLangString, name, params, rt)

ClassNamed(sel) ==
    CASE sel = "AssertionError" -> JavaLangAssertionError
      [] sel = "String"         -> JavaLangString
      [] OTHER                  -> JavaLangObject

\* suite.method_opcodes(m): the decoded instructions of method m.
method_opcodes(m) ==
    CASE m.fam = "arith" ->
           <<Push(IntV(m.p[1])), Push(IntV(m.p[2])), Binary("int", m.sel),
             Return("int")>>
      [] m.fam = "binaryLong" ->
           <<Push(IntV(1)), Push(IntV(2)), Binary("long", "add"), Return("long")>>
      [] m.fam = "binaryBool" ->
           <<Push(BoolV(TRUE)), Push(IntV(1)), Binary("int", "add"), Return("int")>>
      [] m.fam = "binaryShort" ->
           <<Push(IntV(1)), Binary("int", "add"), Return("int")>>
      [] m.fam = "load" ->
           <<Load(m.sel, m.p[1]), Store(m.sel, 2), Load(m.sel, 2), Return(m.sel)>>
      [] m.fam = "charAt" ->
           <<Load("ref", 0), Push(IntV(m.p[1])),
             InvokeVirtual(StringMethod("charAt", <<"int">>, "char")),
             Return("char")>>
      [] m.fam = "substring1" ->
           <<Load("ref", 0), Push(IntV(m.p[1])),
             InvokeVirtual(StringMethod("substring", <<"int">>, "ref")),
             Return("ref")>>
      [] m.fam = "substring2" ->
           <<Load("ref", 0), Push(IntV(m.p[1])), Push(IntV(m.p[2])),
             InvokeVirtual(StringMethod("substring", <<"int", "int">>, "ref")),
             Return("ref")>>
      [] m.fam = "text0" ->
           <<Load("ref", 0),
             InvokeVirtual(StringMethod(m.sel, <<>>,
                           IF m.sel = "length" THEN "int" ELSE "boolean")),
             Return(IF m.sel = "length" THEN "int" ELSE "boolean")>>
      [] m.fam = "text1" ->
           <<Load("ref", 0), Load("ref", 1),
             InvokeVirtual(StringMethod(m.sel, <<"ref">>,
                           CASE m.sel = "equals" -> "boolean"
                             [] m.sel = "indexOf" -> "int"
                             [] OTHER -> "ref")),
             Return("ref")>>
      [] m.fam = "virtualOther" ->
           <<Load("ref", 0),
             InvokeVirtual(MethodRef(ClassNamed(m.sel), "hashCode", <<>>, "int")),
             Return("int")>>
      [] m.fam = "return" ->
           <<Return("none")>>
      [] m.fam = "returnInt" ->
           <<Push(IntV(m.p[1])), Return("int")>>
      [] m.fam = "returnEmpty" ->
           <<Return("int")>>
      [] m.fam = "goto" ->
           <<Goto(m.p[1])>>
      [] m.fam = "fallOff" ->
           <<Push(IntV(1))>>
      [] m.fam = "throwArg" ->
           <<Load("ref", 0), Throw>>
      [] m.fam = "throwUnset" ->
           <<Load("ref", 1), Throw>>
      [] m.fam = "throwConst" ->
           <<Push(NoneV("ref")), Throw>>
      [] m.fam = "throwEmpty" ->
           <<Throw>>
      [] m.fam = "throwNew" ->
           <<New(ClassNamed(m.sel)), Dup(1),
             InvokeSpecial(MethodRef(ClassNamed(m.sel), "<init>", <<>>, "none")),
             Throw>>
      [] m.fam = "assert" ->
           <<Get(TRUE, "$assertionsDisabled"), Ifz("ne", 8), Load("int", 0),
             Ifz("gt", 8), New(JavaLangAssertionError), Dup(1),
             InvokeSpecial(MethodRef(JavaLangAssertionError, "<init>", <<>>, "none")),
             Throw, Return("none")>>
      [] m.fam = "ifz" ->
           <<Load("int", 0), Ifz(m.sel, 3), Return("none"), Return("none")>>
      [] m.fam = "if" ->
           <<Load("int", 0), Load("int", 1), If(m.sel, 4), Return("none"),
             Return("none")>>
      [] m.fam = "getstatic" ->
           <<Get(TRUE, "out"), Return("none")>>
      [] m.fam = "getfield" ->
           <<Load("ref", 0), Get(FALSE, "f"), Return("int")>>
      [] m.fam = "invokestatic" ->
           <<Push(IntV(1)),
             InvokeStatic(MethodRef(ClassNamed(m.sel), "valueOf", <<"int">>, "ref")),
             Return("ref")>>
      [] m.fam = "special" ->
           <<Load("ref", 0),
             InvokeSpecial(MethodRef(ClassNamed(m.sel), "length", <<>>, "int")),
             Return("int")>>
      [] m.fam = "dup" ->
           <<Push(IntV(1)), Dup(m.p[1]), Return("int")>>
      [] m.fam = "dupEmpty" ->
           <<Dup(1), Return("int")>>
      [] m.fam = "arraylength" ->
           <<Load("ref", 0), ArrayLength, Return("int")>>
      [] m.fam = "init" ->
           <<Load("ref", 0)>>
           \o [k \in 1 .. m.p[1] |-> Push(IntV(k))]
           \o <<InvokeSpecial(MethodRef(ClassNamed(m.sel), "<init>",
                                        [k \in 1 .. m.p[1] |-> "int"], "none")),
                Return("none")>>
      [] m.fam = "chain" ->
           [k \in 1 .. m.p[1] |-> Goto(k)] \o <<Return("none")>>
      [] m.fam = "big" ->
           <<Push(BigOperands[m.p[1]]), Push(BigOperands[m.p[2]]),
             Binary("int", m.sel), Return("int")>>

Case(m, args) == [methodid |-> m, input |-> args]

ArgsOfType(t) ==
    CASE t = "int"     -> {IntV(n) : n \in Ints}
      [] t = "boolean" -> {BoolV(TRUE), BoolV(FALSE)}
      [] t = "char"    -> {CharV(c) : c \in Chars}
      [] OTHER         -> RefArgs

\* jpamb.getcase(): the (methodid, input) pairs of the model.
Cases ==
    {Case(Mid("arith", <<a, b>>, o), <<>>) : a \in Ints, b \in Ints, o \in BinaryOprs}
    \cup {Case(Mid(f, <<>>, ""), <<>>) :
            f \in {"binaryLong", "binaryBool", "binaryShort", "return",
                   "returnEmpty", "fallOff", "throwUnset", "throwConst",
                   "throwEmpty", "getstatic", "dupEmpty"}}
    \cup UNION {{Case(Mid("load", <<i>>, t), <<>>) : i \in 0 .. 1}
                \cup {Case(Mid("load", <<i>>, t), <<v>>) :
                        i \in 0 .. 1, v \in ArgsOfType(t)} : t \in LoadTypes}
    \cup {Case(Mid(f, <<i>>, ""), <<r>>) :
            f \in {"charAt", "substring1"}, i \in Indices, r \in RefArgs}
    \cup {Case(Mid("substring2", <<b, e>>, ""), <<r>>) :
            b \in Indices, e \in Indices, r \in RefArgs}
    \cup {Case(Mid("text0", <<>>, n), <<r>>) :
            n \in {"length", "isEmpty", "trim"}, r \in RefArgs}
    \cup {Case(Mid("text1", <<>>, n), <<r, o>>) :
            n \in {"equals", "indexOf", "concat"}, r \in RefArgs, o \in RefArgs}
    \cup {Case(Mid(f, <<>>, c), <<r>>) :
            f \in {"virtualOther", "special"}, c \in {"String", "Object"},
            r \in RefArgs}
    \cup {Case(Mid("returnInt", <<a>>, ""), <<>>) : a \in Ints}
    \cup {Case(Mid("goto", <<t>>, ""), <<>>) : t \in {-1, 0, 1}}
    \cup {Case(Mid(f, <<>>, ""), <<r>>) :
            f \in {"throwArg", "getfield", "arraylength"}, r \in RefArgs}
    \cup {Case(Mid("throwNew", <<>>, c), <<>>) : c \in {"AssertionError", "Object"}}
    \cup {Case(Mid("assert", <<>>, ""), <<IntV(a)>>) : a \in Ints}
    \cup {Case(Mid("ifz", <<>>, c), <<v>>) :
            c \in Conditions,
            v \in ArgsOfType("int") \cup ArgsOfType("boolean") \cup ArgsOfType("char")}
    \cup {Case(Mid("if", <<>>, c), <<v, w>>) :
            c \in Conditions, v \in ArgsOfType("int"), w \in ArgsOfType("int")}
    \cup {Case(Mid("if", <<>>, c), <<v, w>>) :
            c \in Conditions,
            v \in ArgsOfType("boolean") \cup ArgsOfType("char"),
            w \in ArgsOfType("boolean") \cup ArgsOfType("char")}
    \cup {Case(Mid("invokestatic", <<>>, c), <<>>) : c \in {"String", "Object"}}
    \cup {Case(Mid("dup", <<w>>, ""), <<>>) : w \in {1, 2}}
    \cup {Case(Mid("init", <<k>>, c), <<r>>) :
            k \in 0 .. 1, c \in {"AssertionError", "String", "Object"},
            r \in RefArgs}
    \cup {Case(Mid("chain", <<n>>, ""), <<>>) :
            n \in {StepBound - 2, StepBound - 1, StepBound}}

----------------------------------------------------------------------------
(* PC, Stack, Frame and the Code Store. *)

PC(method, offset) == [method |-> method, offset |-> offset]

\* Stack.peek, Stack.push and what Stack.pop leaves; peek and pop raise
\* IndexError on an empty list, which the callers below test first.
peek(items)    == items[Len(items)]
push(items, v) == Append(items, v)
popped(items)  == SubSeq(items, 1, Len(items) - 1)

\* Frame.from_method
from_method(method) ==
    [locals |-> <<>>, stack |-> <<>>, pc |-> PC(method, 0)]

\* Bytecode.__getitem__, lines 36-40: the cache after the lookup of pc.
CacheAfter(cache, pc) ==
    IF pc.method \in DOMAIN cache THEN cache
    ELSE (pc.method :> method_opcodes(pc.method)) @@ cache

\* A lookup that asks the suite every time.
RequestedAfter_EveryLookup(cache, log, pc) == Append(log, pc.method)

\* Bytecode.__getitem__, lines 36-40: the calls to suite.method_opcodes.
RequestedAfter(cache, log, pc) ==
    IF pc.method \in DOMAIN cache THEN log ELSE Append(log, pc.method)

\* opcodes[pc.offset] raises IndexError: a Python list takes the indices
\* -len .. len-1.
IndexError(opcodes, offset) ==
    ~(-Len(opcodes) <= offset /\ offset < Len(opcodes))

\* opcodes[pc.offset], a negative offset counting from the end.
ListAt(opcodes, offset) ==
    IF offset < 0 THEN opcodes[Len(opcodes) + offset + 1]
    ELSE opcodes[offset + 1]

----------------------------------------------------------------------------
(* What a step gives: the frames as it leaves them, and ret, which is      *)
(* "State" (step returned the state), an outcome string, or "raise".       *)

Top(fs) == fs[Len(fs)]
SetTop(fs, f) == [fs EXCEPT ![Len(fs)] = f]

\* An outcome returned after the PC has moved on.
Outcome_Advanced(fs, f, s) ==
    [frames |-> SetTop(fs, [f EXCEPT !.pc.offset = @ + 1]), ret |-> s]

Returned(fs, f)   == [frames |-> SetTop(fs, f), ret |-> "State"]
Outcome(fs, f, s) == [frames |-> SetTop(fs, f), ret |-> s]
Raised(fs, f)     == [frames |-> SetTop(fs, f), ret |-> "raise"]

\* frame.pc += 1
Advance(f) == [f EXCEPT !.pc = PC(@.method, @.offset + 1)]
\* frame.pc = PC(frame.pc.method, target)
Jump(f, target) == [f EXCEPT !.pc = PC(@.method, target)]
Pushed(f, v) == [f EXCEPT !.stack = push(@, v)]
\* The frame with its n topmost values popped (all of them if fewer).
Popped(f, n) ==
    [f EXCEPT !.stack = SubSeq(@, 1, Max(Len(@) - n, 0))]

\* case jvm.Push, lines 105-108
PushStep(fs, o) ==
    Returned(fs, Advance(Pushed(Top(fs), o.value)))

\* The default of a Boolean slot taken to be that of an Integer slot.
LoadDefault_BooleanAsInt(fs, f, o) ==
    IF o.type \in {"int", "boolean"}
      THEN Returned(fs, Advance(Pushed(f, IntV(0))))
    ELSE IF o.type \in {"ref", "object"}
      THEN Returned(fs, Advance(Pushed(f, NoneV(o.type))))
    ELSE Raised(fs, f)

\* Lines 115-124: the default value for an uninitialized local.
LoadDefault(fs, f, o) ==
    IF o.type = "int"
      THEN Returned(fs, Advance(Pushed(f, IntV(0))))
    ELSE IF o.type = "boolean"
      THEN Returned(fs, Advance(Pushed(f, BoolV(FALSE))))
    ELSE IF o.type \in {"ref", "object"}
      THEN Returned(fs, Advance(Pushed(f, NoneV(o.type))))
    ELSE Raised(fs, f)

\* case jvm.Load, lines 110-125
LoadStep(fs, o) ==
    LET f == Top(fs)
    IN  IF o.index \in DOMAIN f.locals
          THEN Returned(fs, Advance(Pushed(f, f.locals[o.index])))
        ELSE LoadDefault(fs, f, o)

\* case jvm.Store, lines 127-132
StoreStep(fs, o) ==
    LET f == Top(fs)
    IN  IF f.stack = <<>> THEN Raised(fs, f)
        ELSE Returned(fs, Advance(
                 [Popped(f, 1) EXCEPT !.locals = (o.index :> peek(f.stack)) @@ @]))

\* case jvm.BinaryOpr.Div, lines 140-143
DivStep(fs, g, v1, v2) ==
    IF v2.i = 0 THEN Outcome(fs, g, "divide by zero")
    ELSE Returned(fs, Advance(Pushed(g, IntV(PyFloorDiv(v1.i, v2.i)))))

\* The remainder taken without the test of the divisor: Python raises
\* ZeroDivisionError.
RemStep_Unchecked(fs, g, v1, v2) ==
    IF v2.i = 0 THEN Raised(fs, g)
    ELSE Returned(fs, Advance(Pushed(g, IntV(PyMod(v1.i, v2.i)))))

\* case jvm.BinaryOpr.Rem, lines 150-153
RemStep(fs, g, v1, v2) ==
    IF v2.i = 0 THEN Outcome(fs, g, "divide by zero")
    ELSE Returned(fs, Advance(Pushed(g, IntV(PyMod(v1.i, v2.i)))))

\* The difference with the operands in the order they are popped.
Difference_Swapped(v1, v2) == IntV(v2.i - v1.i)

\* Line 147: jvm.Value.int(v1.value - v2.value)
Difference(v1, v2) == IntV(v1.i - v2.i)

\* case jvm.Binary(type=jvm.Int()), lines 134-149, for Integer payloads of
\* any size and the operators add, sub and mul.
BigBinaryStep(fs, o) ==
    LET f  == Top(fs)
        v2 == f.stack[Len(f.stack)]
        v1 == f.stack[Len(f.stack) - 1]
        g  == Popped(f, 2)
    IN  IF Len(f.stack) < 2 THEN Raised(fs, g)
        ELSE IF v1.type # "int" \/ v2.type # "int" THEN Raised(fs, g)
        ELSE CASE o.operant = "add" ->
                    Returned(fs, Advance(Pushed(g, BigAdd(v1, v2))))
               [] o.operant = "sub" ->
                    Returned(fs, Advance(Pushed(g, BigSub(v1, v2))))
               [] o.operant = "mul" ->
                    Returned(fs, Advance(Pushed(g, BigMul(v1, v2))))

\* case jvm.Binary(type=jvm.Int()), lines 134-158
BinaryStep(fs, o) ==
    LET f  == Top(fs)
        v2 == f.stack[Len(f.stack)]
        v1 == f.stack[Len(f.stack) - 1]
        g  == Popped(f, 2)
    IN  IF Len(f.stack) < 2 THEN Raised(fs, g)
        ELSE IF v1.type # "int" \/ v2.type # "int" THEN Raised(fs, g)
        ELSE CASE o.operant = "div" -> DivStep(fs, g, v1, v2)
               [] o.operant = "add" ->
                    Returned(fs, Advance(Pushed(g, IntV(v1.i + v2.i))))
               [] o.operant = "sub" ->
                    Returned(fs, Advance(Pushed(g, Difference(v1, v2))))
               [] o.operant = "mul" ->
                    Returned(fs, Advance(Pushed(g, IntV(v1.i * v2.i))))
               [] o.operant = "rem" -> RemStep(fs, g, v1, v2)
               [] OTHER -> Raised(fs, g)

\* bool(v.value)
Truthy(v) ==
    CASE v.kind \in {"int", "bool"} -> v.i # 0
      [] v.kind = "str"             -> v.s # <<>>
      [] OTHER                      -> FALSE

\* get_comparable_value, lines 201-210 (and lines 165-170 of Ifz): what a
\* Value is compared as.
get_comparable_value(v) ==
    IF v.type = "boolean"
      THEN [kind |-> "int", i |-> IF Truthy(v) THEN 1 ELSE 0, s |-> <<>>]
    ELSE IF v.type = "char" /\ v.kind = "str"
      THEN [kind |-> "int", i |-> Ord(v.s), s |-> <<>>]
    ELSE [kind |-> v.kind, i |-> v.i, s |-> v.s]

\* s < t for Python strings.
StrLess(s, t) ==
    \E k \in 0 .. Min(Len(s), Len(t)) :
        /\ SubSeq(s, 1, k) = SubSeq(t, 1, k)
        /\ \/ k = Len(s) /\ k < Len(t)
           \/ k < Len(s) /\ k < Len(t) /\ Ord(<<s[k + 1]>>) < Ord(<<t[k + 1]>>)

Numeric(c) == c.kind \in {"int", "bool"}

\* c1 == c2 for Python ints, strs and None.
PyEq(c1, c2) ==
    \/ Numeric(c1) /\ Numeric(c2) /\ c1.i = c2.i
    \/ c1.kind = "str" /\ c2.kind = "str" /\ c1.s = c2.s
    \/ c1.kind = "none" /\ c2.kind = "none"

\* c1 < c2 where Python defines it.
PyLess(c1, c2) ==
    IF Numeric(c1) THEN c1.i < c2.i ELSE StrLess(c1.s, c2.s)

\* The match on cond, lines 172-187 and 215-230: "true", "false", or
\* "raise" (an unknown condition, or an ordering Python does not define).
should_jump(cond, c1, c2) ==
    LET ordered == \/ Numeric(c1) /\ Numeric(c2)
                   \/ c1.kind = "str" /\ c2.kind = "str"
        B(b) == IF b THEN "true" ELSE "false"
    IN  CASE cond = "eq" -> B(PyEq(c1, c2))
          [] cond = "ne" -> B(~PyEq(c1, c2))
          [] cond \in {"lt", "le", "gt", "ge"} /\ ~ordered -> "raise"
          [] cond = "lt" -> B(PyLess(c1, c2))
          [] cond = "le" -> B(PyLess(c1, c2) \/ PyEq(c1, c2))
          [] cond = "gt" -> B(PyLess(c2, c1))
          [] cond = "ge" -> B(PyLess(c2, c1) \/ PyEq(c1, c2))
          [] OTHER -> "raise"

\* Lines 189-193 and 232-236.
Branch(fs, g, o, j) ==
    CASE j = "true"  -> Returned(fs, Jump(g, o.target))
      [] j = "false" -> Returned(fs, Advance(g))
      [] OTHER       -> Raised(fs, g)

\* case jvm.Ifz, lines 160-193
IfzStep(fs, o) ==
    LET f == Top(fs)
    IN  IF f.stack = <<>> THEN Raised(fs, f)
        ELSE Branch(fs, Popped(f, 1), o,
                    should_jump(o.condition, get_comparable_value(peek(f.stack)),
                                [kind |-> "int", i |-> 0, s |-> <<>>]))

\* A two-value branch that takes the value popped first as the left one.
IfStep_Swapped(fs, o) ==
    LET f      == Top(fs)
        value2 == f.stack[Len(f.stack)]
        value1 == f.stack[Len(f.stack) - 1]
    IN  IF Len(f.stack) < 2 THEN Raised(fs, Popped(f, 2))
        ELSE Branch(fs, Popped(f, 2), o,
                    should_jump(o.condition, get_comparable_value(value2),
                                get_comparable_value(value1)))

\* case jvm.If, lines 195-236
IfStep(fs, o) ==
    LET f      == Top(fs)
        value2 == f.stack[Len(f.stack)]
        value1 == f.stack[Len(f.stack) - 1]
    IN  IF Len(f.stack) < 2 THEN Raised(fs, Popped(f, 2))
        ELSE Branch(fs, Popped(f, 2), o,
                    should_jump(o.condition, get_comparable_value(value1),
                                get_comparable_value(value2)))

\* A branch that moves on to the next instruction.
GotoStep_FallsThrough(fs, o) ==
    Returned(fs, Advance(Top(fs)))

\* case jvm.Goto, lines 238-241
GotoStep(fs, o) ==
    Returned(fs, Jump(Top(fs), o.target))

\* case jvm.New, lines 243-256
NewStep(fs, o) ==
    LET f == Top(fs)
    IN  IF PyIn(AssertionErrorStr, o.classname)
          THEN Returned(fs, Advance(Pushed(f, RefV(AssertionErrorStr))))
        ELSE Returned(fs, Advance(Pushed(f, RefV(ObjectPrefix \o o.classname))))

\* A dup that duplicates one value whatever its word count.
DupStep_WordsIgnored(fs, o) ==
    LET f == Top(fs)
    IN  IF f.stack = <<>> THEN Raised(fs, f)
        ELSE Returned(fs, Advance(Pushed(f, peek(f.stack))))

\* case jvm.Dup, lines 258-269
DupStep(fs, o) ==
    LET f == Top(fs)
    IN  IF o.words = 1
          THEN IF f.stack = <<>> THEN Raised(fs, f)
               ELSE Returned(fs, Advance(Pushed(f, peek(f.stack))))
        ELSE Raised(fs, f)

\* A get-static that reports assertions as disabled.
GetStaticStep_AssertionsDisabled(fs, o) ==
    LET f == Top(fs)
    IN  IF o.field = "$assertionsDisabled"
          THEN Returned(fs, Advance(Pushed(f, BoolV(TRUE))))
        ELSE Raised(fs, f)

\* case jvm.Get(static=True), lines 271-279
GetStaticStep(fs, o) ==
    LET f == Top(fs)
    IN  IF o.field = "$assertionsDisabled"
          THEN Returned(fs, Advance(Pushed(f, BoolV(FALSE))))
        ELSE Raised(fs, f)

\* case jvm.Get(static=False), lines 281-286
GetFieldStep(fs, o) ==
    LET f == Top(fs)
    IN  IF f.stack = <<>> THEN Raised(fs, f)
        ELSE IF IsNone(peek(f.stack)) THEN Outcome(fs, Popped(f, 1), "null pointer")
        ELSE Raised(fs, Popped(f, 1))

\* throw without the test for a null reference.
ThrowStep_NullUntested(fs, o) ==
    LET f == Top(fs)
    IN  IF f.stack = <<>> THEN Raised(fs, f)
        ELSE Outcome(fs, Popped(f, 1), "assertion error")

\* case jvm.Throw, lines 288-301
ThrowStep(fs, o) ==
    LET f == Top(fs)
        exception_obj == peek(f.stack)
    IN  IF f.stack = <<>> THEN Raised(fs, f)
        ELSE IF IsNone(exception_obj) THEN Outcome(fs, Popped(f, 1), "null pointer")
        ELSE IF PyIn(AssertionErrorStr, PyStr(exception_obj))
          THEN Outcome(fs, Popped(f, 1), "assertion error")
        ELSE Outcome(fs, Popped(f, 1), "assertion error")

----------------------------------------------------------------------------
(* Built-in method emulation.  A result is a Value, a str (an outcome) or  *)
(* None.                                                                   *)

AValue(v) == [tag |-> "value", value |-> v, outcome |-> ""]
AStr(s)   == [tag |-> "str", value |-> NoneV("ref"), outcome |-> s]
ANone     == [tag |-> "none", value |-> NoneV("ref"), outcome |-> ""]

\* obj_ref of a static invocation: Python's None in place of a Value.
Absent == [type |-> "absent", kind |-> "absent", i |-> 0, s |-> <<>>]

\* charAt with position 0 refused as well.
CharAt_FirstRefused(string_value, args) ==
    IF Len(args) = 1 /\ args[1].type = "int"
      THEN LET index == args[1].i
           IN  IF index <= 0 \/ index >= Len(string_value)
                 THEN AStr("out of bounds")
               ELSE AValue(CharV(PyIndex(string_value, index)))
    ELSE ANone

\* case "charAt", lines 440-446
CharAt(string_value, args) ==
    IF Len(args) = 1 /\ args[1].type = "int"
      THEN LET index == args[1].i
           IN  IF index < 0 \/ index >= Len(string_value)
                 THEN AStr("out of bounds")
               ELSE AValue(CharV(PyIndex(string_value, index)))
    ELSE ANone

\* substring without the test begin > end of the two-argument form.
Substring_Unordered(string_value, args) ==
    IF Len(args) = 1 /\ args[1].type = "int"
      THEN LET begin == args[1].i
           IN  IF begin < 0 \/ begin > Len(string_value)
                 THEN AStr("out of bounds")
               ELSE AValue(RefV(PySliceFrom(string_value, begin)))
    ELSE IF Len(args) = 2 /\ args[1].type = "int" /\ args[2].type = "int"
      THEN LET begin == args[1].i
               end   == args[2].i
           IN  IF begin < 0 \/ end > Len(string_value)
                 THEN AStr("out of bounds")
               ELSE AValue(RefV(PySlice(string_value, begin, end)))
    ELSE ANone

\* case "substring", lines 461-475
Substring(string_value, args) ==
    IF Len(args) = 1 /\ args[1].type = "int"
      THEN LET begin == args[1].i
           IN  IF begin < 0 \/ begin > Len(string_value)
                 THEN AStr("out of bounds")
               ELSE AValue(RefV(PySliceFrom(string_value, begin)))
    ELSE IF Len(args) = 2 /\ args[1].type = "int" /\ args[2].type = "int"
      THEN LET begin == args[1].i
               end   == args[2].i
           IN  IF begin < 0 \/ end > Len(string_value) \/ begin > end
                 THEN AStr("out of bounds")
               ELSE AValue(RefV(PySlice(string_value, begin, end)))
    ELSE ANone

\* handle_string_method, lines 421-499
handle_string_method(method_name, obj_ref, args, return_type) ==
    LET string_value == PyStr(obj_ref)
    IN  IF obj_ref = Absent THEN AStr("null pointer")
        ELSE IF IsNone(obj_ref) THEN AStr("null pointer")
        ELSE CASE method_name = "length" ->
                    IF Len(args) = 0 THEN AValue(IntV(Len(string_value)))
                    ELSE ANone
               [] method_name = "charAt" -> CharAt(string_value, args)
               [] method_name = "equals" ->
                    IF Len(args) = 1
                      THEN IF IsNone(args[1]) THEN AValue(BoolV(FALSE))
                           ELSE AValue(BoolV(string_value = PyStr(args[1])))
                    ELSE ANone
               [] method_name = "isEmpty" ->
                    IF Len(args) = 0 THEN AValue(BoolV(Len(string_value) = 0))
                    ELSE ANone
               [] method_name = "substring" -> Substring(string_value, args)
               [] method_name = "indexOf" ->
                    IF Len(args) = 1
                      THEN IF IsNone(args[1]) THEN AStr("null pointer")
                           ELSE AValue(IntV(PyFind(PyStr(args[1]), string_value)))
                    ELSE ANone
               [] method_name = "concat" ->
                    IF Len(args) = 1
                      THEN IF IsNone(args[1]) THEN AStr("null pointer")
                           ELSE AValue(RefV(string_value \o PyStr(args[1])))
                    ELSE ANone
               [] OTHER -> ANone

\* handle_method_invocation, lines 401-418
handle_method_invocation(m, obj_ref, args) ==
    IF PyIn(AssertionErrorStr, m.classname) /\ m.name = "<init>" THEN ANone
    ELSE IF PyIn(StringStr, m.classname) \/ PyEndsWith(m.classname, StringStr)
      THEN handle_string_method(m.name, obj_ref, args, m.return_type)
    ELSE ANone

\* Lines 305-308: args, the param_count topmost values in stack order.
ArgsOf(f, m) ==
    SubSeq(f.stack, Len(f.stack) - Len(m.params) + 1, Len(f.stack))

\* Lines 316-322: the result pushed, returned as the outcome, or refused.
Deliver(fs, g, result) ==
    CASE result.tag = "str"   -> Outcome(fs, g, result.outcome)
      [] result.tag = "value" -> Returned(fs, Advance(Pushed(g, result.value)))
      [] OTHER                -> Raised(fs, g)

\* A virtual invocation that leaves the test for a null receiver to the
\* emulation of the String methods.
InvokeVirtualStep_NullUntested(fs, o) ==
    LET f == Top(fs)
        m == o.method
        n == Len(m.params)
        obj_ref == f.stack[Len(f.stack) - n]
        g == Popped(f, n + 1)
    IN  IF Len(f.stack) < n + 1 THEN Raised(fs, g)
        ELSE Deliver(fs, g, handle_method_invocation(m, obj_ref, ArgsOf(f, m)))

\* case jvm.InvokeVirtual, lines 303-322
InvokeVirtualStep(fs, o) ==
    LET f == Top(fs)
        m == o.method
        n == Len(m.params)
        obj_ref == f.stack[Len(f.stack) - n]
        g == Popped(f, n + 1)
    IN  IF Len(f.stack) < n + 1 THEN Raised(fs, g)
        ELSE IF IsNone(obj_ref) THEN Outcome(fs, g, "null pointer")
        ELSE Deliver(fs, g, handle_method_invocation(m, obj_ref, ArgsOf(f, m)))

\* A static invocation that pushes a frame for the callee.
InvokeStaticStep_FramePushed(fs, o) ==
    LET f == Top(fs)
        g == Popped(f, Len(o.method.params))
    IN  [frames |-> Append(SetTop(fs, g), from_method(Mid("return", <<>>, ""))),
         ret |-> "State"]

\* case jvm.InvokeStatic, lines 324-339
InvokeStaticStep(fs, o) ==
    LET f == Top(fs)
        m == o.method
        n == Len(m.params)
        g == Popped(f, n)
    IN  IF Len(f.stack) < n THEN Raised(fs, g)
        ELSE Deliver(fs, g, handle_method_invocation(m, Absent, ArgsOf(f, m)))

\* A special invocation whose constructor consumes the receiver.
InvokeSpecialStep_ReceiverDropped(fs, o) ==
    LET f == Top(fs)
        m == o.method
        n == Len(m.params)
        obj_ref == f.stack[Len(f.stack) - n]
        g == Popped(f, n + 1)
        result == handle_method_invocation(m, obj_ref, ArgsOf(f, m))
    IN  IF Len(f.stack) < n + 1 THEN Raised(fs, g)
        ELSE IF IsNone(obj_ref) THEN Outcome(fs, g, "null pointer")
        ELSE IF m.name = "<init>"
          THEN IF result.tag = "str" THEN Outcome(fs, g, result.outcome)
               ELSE Returned(fs, Advance(g))
        ELSE Deliver(fs, g, result)

\* case jvm.InvokeSpecial, lines 341-373
InvokeSpecialStep(fs, o) ==
    LET f == Top(fs)
        m == o.method
        n == Len(m.params)
        obj_ref == f.stack[Len(f.stack) - n]
        g == Popped(f, n + 1)
        result == handle_method_invocation(m, obj_ref, ArgsOf(f, m))
    IN  IF Len(f.stack) < n + 1 THEN Raised(fs, g)
        ELSE IF IsNone(obj_ref) THEN Outcome(fs, g, "null pointer")
        ELSE IF m.name = "<init>"
          THEN IF result.tag = "str" THEN Outcome(fs, g, result.outcome)
               ELSE Returned(fs, Advance(Pushed(g, obj_ref)))
        ELSE Deliver(fs, g, result)

\* A pop of the last frame after which the run goes on.
AfterPop_GoesOn(rest, pushes, v1) ==
    IF rest # <<>>
      THEN [frames |-> SetTop(rest, Advance(IF pushes THEN Pushed(Top(rest), v1)
                                            ELSE Top(rest))),
            ret |-> "State"]
    ELSE [frames |-> rest, ret |-> "State"]

\* Lines 379-384 and 389-395: the frame is popped; the caller (if any)
\* gets the value and moves on, else the run is over.
AfterPop(rest, pushes, v1) ==
    IF rest # <<>>
      THEN [frames |-> SetTop(rest, Advance(IF pushes THEN Pushed(Top(rest), v1)
                                            ELSE Top(rest))),
            ret |-> "State"]
    ELSE [frames |-> rest, ret |-> "ok"]

\* A return of a value that leaves the frame on the call stack.
ReturnStep_FrameKept(fs, o) ==
    LET f == Top(fs)
    IN  IF o.type = "none" THEN AfterPop(popped(fs), FALSE, NoneV("ref"))
        ELSE IF f.stack = <<>> THEN Raised(fs, f)
        ELSE AfterPop(SetTop(fs, Popped(f, 1)), TRUE, peek(f.stack))

\* case jvm.Return, lines 375-395
ReturnStep(fs, o) ==
    LET f == Top(fs)
    IN  IF o.type = "none" THEN AfterPop(popped(fs), FALSE, NoneV("ref"))
        ELSE IF f.stack = <<>> THEN Raised(fs, f)
        ELSE AfterPop(popped(fs), TRUE, peek(f.stack))

----------------------------------------------------------------------------
(* The driver, lines 502-514, and the run. *)

\* An entry frame whose arguments start at slot 1.
InitialFrame_FromOne(method, values) ==
    [from_method(method) EXCEPT
        !.locals = [i \in 1 .. Len(values) |-> values[i]]]

\* Lines 502-506: the frame of the entry method with the arguments in the
\* local slots 0 .. k-1.
InitialFrame(method, values) ==
    [from_method(method) EXCEPT
        !.locals = [i \in 0 .. (Len(values) - 1) |-> values[i + 1]]]

Init ==
    \E c \in Cases :
        /\ methodid = c.methodid
        /\ input = c.input
        /\ methods = <<>>
        /\ requested = <<>>
        /\ heap = <<>>
        /\ frames = <<InitialFrame(c.methodid, c.input)>>
        /\ state = "State"
        /\ x = 0
        /\ out = <<>>
        /\ driver = "loop"
        /\ opr = [op |-> "none"]
        /\ before = <<>>

\* The driver is about to call step: line 509.
Stepping ==
    /\ driver = "loop"
    /\ x < StepBound

\* frame.pc of line 101.
CurrentPC == Top(frames).pc

\* Line 102 finds an instruction: bc[frame.pc] does not raise.
Decodes ==
    ~IndexError(CacheAfter(methods, CurrentPC)[CurrentPC.method], CurrentPC.offset)

\* opr of line 102.
Decoded ==
    ListAt(CacheAfter(methods, CurrentPC)[CurrentPC.method], CurrentPC.offset)

\* An iteration that prints the outcome and goes on iterating.
Iterate_NoBreak(o, r) ==
    /\ x' = x + 1
    /\ methods' = CacheAfter(methods, CurrentPC)
    /\ requested' = RequestedAfter(methods, requested, CurrentPC)
    /\ opr' = o
    /\ before' = frames
    /\ frames' = r.frames
    /\ state' = r.ret
    /\ driver' = IF r.ret = "raise" THEN "aborted" ELSE "loop"
    /\ out' = IF r.ret \in {"State", "raise"} THEN out ELSE Append(out, r.ret)
    /\ UNCHANGED <<methodid, input, heap>>

\* One iteration of the driver loop, lines 508-512, whose step decoded o
\* and gave r: the returned State is kept, a returned str is printed and
\* ends the loop, and an exception ends the process.
Iterate(o, r) ==
    /\ x' = x + 1
    /\ methods' = CacheAfter(methods, CurrentPC)
    /\ requested' = RequestedAfter(methods, requested, CurrentPC)
    /\ opr' = o
    /\ before' = frames
    /\ frames' = r.frames
    /\ state' = r.ret
    /\ driver' = CASE r.ret = "State" -> "loop"
                   [] r.ret = "raise" -> "aborted"
                   [] OTHER           -> "done"
    /\ out' = IF r.ret \in {"State", "raise"} THEN out ELSE Append(out, r.ret)
    /\ UNCHANGED <<methodid, input, heap>>

\* The step decodes an instruction with this tag.
At(op) ==
    /\ Stepping
    /\ Decodes
    /\ Decoded.op = op

StepPush  == At("push") /\ Iterate(Decoded, PushStep(frames, Decoded))
StepLoad  == At("load") /\ Iterate(Decoded, LoadStep(frames, Decoded))
StepStore == At("store") /\ Iterate(Decoded, StoreStep(frames, Decoded))
StepBinary ==
    /\ At("binary")
    /\ Decoded.type = "int"
    /\ Iterate(Decoded, BinaryStep(frames, Decoded))
StepIfz   == At("ifz") /\ Iterate(Decoded, IfzStep(frames, Decoded))
StepIf    == At("if") /\ Iterate(Decoded, IfStep(frames, Decoded))
StepGoto  == At("goto") /\ Iterate(Decoded, GotoStep(frames, Decoded))
StepNew   == At("new") /\ Iterate(Decoded, NewStep(frames, Decoded))
StepDup   == At("dup") /\ Iterate(Decoded, DupStep(frames, Decoded))
StepGetStatic ==
    /\ At("get")
    /\ Decoded.static
    /\ Iterate(Decoded, GetStaticStep(frames, Decoded))
StepGetField ==
    /\ At("get")
    /\ ~Decoded.static
    /\ Iterate(Decoded, GetFieldStep(frames, Decoded))
StepThrow == At("throw") /\ Iterate(Decoded, ThrowStep(frames, Decoded))
StepInvokeVirtual ==
    At("invokevirtual") /\ Iterate(Decoded, InvokeVirtualStep(frames, Decoded))
StepInvokeStatic ==
    At("invokestatic") /\ Iterate(Decoded, InvokeStaticStep(frames, Decoded))
StepInvokeSpecial ==
    At("invokespecial") /\ Iterate(Decoded, InvokeSpecialStep(frames, Decoded))
StepReturn == At("return") /\ Iterate(Decoded, ReturnStep(frames, Decoded))

\* case a, lines 397-398: no case matches the instruction.
StepUnhandled ==
    /\ Stepping
    /\ Decodes
    /\ \/ Decoded.op = "arraylength"
       \/ Decoded.op = "binary" /\ Decoded.type # "int"
    /\ Iterate(Decoded, Raised(frames, Top(frames)))

\* Line 42 raises IndexError: the offset is no index of the method's
\* instruction list.  The method has been cached by then, and no
\* instruction is decoded.
StepNoInstruction ==
    /\ Stepping
    /\ ~Decodes
    /\ Iterate([op |-> "none"], Raised(frames, Top(frames)))

\* An else branch that runs whether or not the loop broke.
ReportDivergence_AfterBreak ==
    /\ driver \in {"loop", "done"}
    /\ x = StepBound
    /\ out' = Append(out, "*")
    /\ driver' = "done"
    /\ UNCHANGED <<methodid, input, methods, requested, heap, frames, state, x,
                   opr, before>>

\* Lines 513-514: the loop ran out without a break.
ReportDivergence ==
    /\ driver = "loop"
    /\ x = StepBound
    /\ out' = Append(out, "*")
    /\ driver' = "done"
    /\ UNCHANGED <<methodid, input, methods, requested, heap, frames, state, x,
                   opr, before>>

Next ==
    \/ StepPush
    \/ StepLoad
    \/ StepStore
    \/ StepBinary
    \/ StepIfz
    \/ StepIf
    \/ StepGoto
    \/ StepNew
    \/ StepDup
    \/ StepGetStatic
    \/ StepGetField
    \/ StepThrow
    \/ StepInvokeVirtual
    \/ StepInvokeStatic
    \/ StepInvokeSpecial
    \/ StepReturn
    \/ StepUnhandled
    \/ StepNoInstruction
    \/ ReportDivergence

Spec == Init /\ [][Next]_vars

----------------------------------------------------------------------------
(* The runs of [push a, push b, binary(int), return(int)] on Integers at  *)
(* and around the ends of the signed 32-bit range.                        *)

BigCases ==
    {Case(Mid("big", <<a, b>>, o), <<>>) :
        a \in DOMAIN BigOperands, b \in DOMAIN BigOperands,
        o \in {"add", "sub", "mul"}}

BigInit ==
    \E c \in BigCases :
        /\ methodid = c.methodid
        /\ input = c.input
        /\ methods = <<>>
        /\ requested = <<>>
        /\ heap = <<>>
        /\ frames = <<InitialFrame(c.methodid, c.input)>>
        /\ state = "State"
        /\ x = 0
        /\ out = <<>>
        /\ driver = "loop"
        /\ opr = [op |-> "none"]
        /\ before = <<>>

BigStepPush == At("push") /\ Iterate(Decoded, PushStep(frames, Decoded))
BigStepBinary ==
    /\ At("binary")
    /\ Decoded.type = "int"
    /\ Iterate(Decoded, BigBinaryStep(frames, Decoded))
BigStepReturn == At("return") /\ Iterate(Decoded, ReturnStep(frames, Decoded))

BigNext ==
    \/ BigStepPush
    \/ BigStepBinary
    \/ BigStepReturn

BigSpec == BigInit /\ [][BigNext]_vars

----------------------------------------------------------------------------
(* The state the last step started from and what it left. *)

\* The top frame the last step ran in, and the one it left (if any).
FrameBefore == Top(before)
FrameAfter  == Top(frames)

\* The last step was an Integer binary-arithmetic step on two Integer
\* operands: Left below Right on the operand stack.
BinaryRan ==
    /\ opr.op = "binary"
    /\ opr.type = "int"
    /\ Len(FrameBefore.stack) >= 2
    /\ FrameBefore.stack[Len(FrameBefore.stack)].type = "int"
    /\ FrameBefore.stack[Len(FrameBefore.stack) - 1].type = "int"
Right == FrameBefore.stack[Len(FrameBefore.stack)].i
Left  == FrameBefore.stack[Len(FrameBefore.stack) - 1].i

\* The step returned the State, having pushed v in place of the n topmost
\* values and moved the PC to the next instruction.
Replaced(n, v) ==
    /\ state = "State"
    /\ driver = "loop"
    /\ Len(frames) = Len(before)
    /\ FrameAfter.stack =
           Append(SubSeq(FrameBefore.stack, 1, Len(FrameBefore.stack) - n), v)
    /\ FrameAfter.pc = PC(FrameBefore.pc.method, FrameBefore.pc.offset + 1)
    /\ FrameAfter.locals = FrameBefore.locals

\* The step returned the outcome s, which the driver printed, ending the
\* run, after popping n values and pushing none.
Ended(n, s) ==
    /\ state = s
    /\ driver = "done"
    /\ out = <<s>>
    /\ Len(frames) = Len(before)
    /\ FrameAfter.stack = SubSeq(FrameBefore.stack, 1, Len(FrameBefore.stack) - n)

\* The quotient of a by b rounded toward zero.
TruncDiv(a, b) ==
    LET abs(n) == IF n < 0 THEN -n ELSE n
        q == abs(a) \div abs(b)
    IN  IF (a < 0) = (b < 0) THEN q ELSE -q

\* C1: a div step on Integer operands (a, b) with b # 0 pushes the quotient
\* of a by b truncated toward zero.
C1_DivTruncatesTowardZero ==
    (BinaryRan /\ opr.operant = "div" /\ Right # 0)
        => Replaced(2, IntV(TruncDiv(Left, Right)))

\* What a div and a rem step push when run from the state the last step
\* started from.
QuotientPushed == peek(Top(BinaryStep(before, Binary("int", "div")).frames).stack).i
RemainderPushed == peek(Top(BinaryStep(before, Binary("int", "rem")).frames).stack).i

\* C2: for Integer operands (a, b) with b # 0, the q the div step pushes and
\* the r the rem step pushes satisfy q*b + r = a.
C2_DivRemIdentity ==
    (BinaryRan /\ opr.operant \in {"div", "rem"} /\ Right # 0)
        => /\ Replaced(2, IntV(IF opr.operant = "div" THEN QuotientPushed
                               ELSE RemainderPushed))
           /\ QuotientPushed * Right + RemainderPushed = Left

\* A div step ran on a negative dividend that the divisor does not divide.
C2_Witness ==
    /\ BinaryRan
    /\ opr.operant = "div"
    /\ Left = -7
    /\ Right = 2
    /\ state = "State"

\* [push 4, push 0, binary-div, return(int)]
DivByZeroScenario == Mid("arith", <<4, 0>>, "div")

\* C3: a div or rem step on Integer operands whose right operand is 0
\* returns "divide by zero" and pushes nothing; the run of
\* [push 4, push 0, binary-div, return(int)] without arguments ends with
\* "divide by zero", at its third step.
C3_DivideByZero ==
    /\ (BinaryRan /\ opr.operant \in {"div", "rem"} /\ Right = 0)
           => Ended(2, "divide by zero")
    /\ (methodid = DivByZeroScenario /\ input = <<>>)
           => /\ x <= 3
              /\ x < 3 => driver = "loop" /\ out = <<>>
              /\ x = 3 => driver = "done" /\ out = <<"divide by zero">>

\* The scenario has ended.
C3_Witness ==
    /\ methodid = DivByZeroScenario
    /\ input = <<>>
    /\ BinaryRan
    /\ Left = 4
    /\ Right = 0
    /\ out = <<"divide by zero">>

\* The last step was a load-local of a slot the frame does not hold.
UnsetLoadRan ==
    /\ opr.op = "load"
    /\ opr.index \notin DOMAIN FrameBefore.locals

\* C4: a load-local of an unset slot pushes Integer 0, Boolean false or a
\* null Reference by its declared type, advances the PC by 1 and raises
\* nothing.
C4_UnsetLoadDefault ==
    /\ (UnsetLoadRan /\ opr.type = "int") => Replaced(0, IntV(0))
    /\ (UnsetLoadRan /\ opr.type = "boolean") => Replaced(0, BoolV(FALSE))
    /\ (UnsetLoadRan /\ opr.type = "ref") => Replaced(0, NoneV("ref"))

\* An unset Boolean slot has been loaded.
C4_Witness ==
    /\ UnsetLoadRan
    /\ opr.type = "boolean"
    /\ opr.index = 1
    /\ FrameAfter.stack = <<BoolV(FALSE)>>

\* C5: a load-local step of any declared type and slot, written or not,
\* pushes exactly one Value and advances the PC by 1; it never ends in an
\* internal error.
C5_LoadNeverFails ==
    opr.op = "load"
        => /\ state = "State"
           /\ Len(FrameAfter.stack) = Len(FrameBefore.stack) + 1
           /\ FrameAfter.pc = PC(FrameBefore.pc.method, FrameBefore.pc.offset + 1)

\* The last step was a virtual invocation of the String method name with n
\* Integer arguments on a text receiver.
TextCallRan(name, n) ==
    /\ opr.op = "invokevirtual"
    /\ opr.method.classname = JavaLangString
    /\ opr.method.name = name
    /\ Len(opr.method.params) = n
    /\ Len(FrameBefore.stack) >= n + 1
    /\ FrameBefore.stack[Len(FrameBefore.stack) - n].type = "ref"
    /\ FrameBefore.stack[Len(FrameBefore.stack) - n].kind = "str"
    /\ \A k \in 1 .. n :
           FrameBefore.stack[Len(FrameBefore.stack) - n + k].type = "int"
\* The receiver's text and the k-th of the n arguments.
Receiver(n) == FrameBefore.stack[Len(FrameBefore.stack) - n].s
Arg(n, k)   == FrameBefore.stack[Len(FrameBefore.stack) - n + k].i

\* C6: character-at on a text s and an Integer i yields "out of bounds"
\* when i < 0 or i >= length(s), and else the Character holding the i-th
\* character of s, counted from 0.
C6_CharAt ==
    TextCallRan("charAt", 1)
        => IF Arg(1, 1) < 0 \/ Arg(1, 1) >= Len(Receiver(1))
             THEN Ended(2, "out of bounds")
           ELSE Replaced(2, CharV(<<Receiver(1)[Arg(1, 1) + 1]>>))

\* The second character of "ab" has been fetched.
C6_Witness ==
    /\ TextCallRan("charAt", 1)
    /\ Receiver(1) = <<"a", "b">>
    /\ Arg(1, 1) = 1
    /\ peek(FrameAfter.stack) = CharV(<<"b">>)

\* C7: substring(b, e) on a text s yields "out of bounds" exactly when
\* b < 0 or e > length(s) or b > e, and else the text of the characters of s
\* at b .. e-1; substring(b) yields "out of bounds" exactly when b < 0 or
\* b > length(s), and else the suffix of s from b.
C7_Substring ==
    /\ TextCallRan("substring", 2)
           => IF \/ Arg(2, 1) < 0
                 \/ Arg(2, 2) > Len(Receiver(2))
                 \/ Arg(2, 1) > Arg(2, 2)
                THEN Ended(3, "out of bounds")
              ELSE Replaced(3, RefV(SubSeq(Receiver(2), Arg(2, 1) + 1, Arg(2, 2))))
    /\ TextCallRan("substring", 1)
           => IF Arg(1, 1) < 0 \/ Arg(1, 1) > Len(Receiver(1))
                THEN Ended(2, "out of bounds")
              ELSE Replaced(2, RefV(SubSeq(Receiver(1), Arg(1, 1) + 1,
                                           Len(Receiver(1)))))

\* "ab".substring(1, 2) has given "b".
C7_Witness ==
    /\ TextCallRan("substring", 2)
    /\ Receiver(2) = <<"a", "b">>
    /\ Arg(2, 1) = 1
    /\ Arg(2, 2) = 2
    /\ peek(FrameAfter.stack) = RefV(<<"b">>)

\* The last step was a return in the only frame of the call stack, of no
\* value or of a value the operand stack holds.
LastReturnRan ==
    /\ opr.op = "return"
    /\ Len(before) = 1
    /\ opr.type = "none" \/ FrameBefore.stack # <<>>

\* The entry method whose first instruction is a no-argument return.
ReturnsAtOnce == Mid("return", <<>>, "")

\* C8: a return step in the only frame of the call stack, with or without
\* a return value, yields "ok" and leaves the call stack empty; the method
\* that returns at once ends with "ok" after exactly one step.
C8_LastReturn ==
    /\ LastReturnRan
           => /\ state = "ok"
              /\ frames = <<>>
              /\ driver = "done"
              /\ out = <<"ok">>
    /\ methodid = ReturnsAtOnce
           => /\ x <= 1
              /\ x = 0 => driver = "loop" /\ out = <<>>
              /\ x = 1 => LastReturnRan /\ state = "ok"

\* A value has been returned from the only frame.
C8_Witness ==
    /\ LastReturnRan
    /\ opr.type = "int"
    /\ methodid.fam = "returnInt"
    /\ frames = <<>>
    /\ out = <<"ok">>

\* The entry method whose body is a branch to its own offset.
TightLoop == Mid("goto", <<0>>, "")

\* C9: on the branch to itself the driver performs exactly 1000 steps,
\* each returning a State with the same PC, and then reports "*".
C9_TightLoop ==
    methodid = TightLoop
        => /\ x <= 1000
           /\ state = "State"
           /\ Len(frames) = 1
           /\ FrameAfter.pc = PC(TightLoop, 0)
           /\ x > 0 => opr.op = "goto"
           /\ driver \in {"loop", "done"}
           /\ driver = "loop" => out = <<>>
           /\ driver = "done" => x = 1000 /\ out = <<"*">>

\* The divergence marker has been printed for the tight loop.
C9_Witness ==
    /\ methodid = TightLoop
    /\ x = 1000
    /\ driver = "done"
    /\ out = <<"*">>

\* The last step was a throw of a Reference.
ThrowRan ==
    /\ opr.op = "throw"
    /\ FrameBefore.stack # <<>>
    /\ peek(FrameBefore.stack).type = "ref"
Thrown == peek(FrameBefore.stack)

\* C10: a throw step pops one Reference and ends the run, with "null
\* pointer" when the reference is null and with "assertion error" for
\* every other reference, marked as an assertion error or not.
C10_Throw ==
    ThrowRan
        => Ended(1, IF IsNone(Thrown) THEN "null pointer" ELSE "assertion error")

\* The null of an unset local slot has been thrown.
C10_Witness ==
    /\ ThrowRan
    /\ methodid.fam = "throwUnset"
    /\ IsNone(Thrown)
    /\ out = <<"null pointer">>

\* The last step was an invocation of one of these kinds that found its
\* arguments, and a receiver where it takes one, on the operand stack.
InvokeRan(kinds) ==
    /\ opr.op \in kinds
    /\ Len(FrameBefore.stack) >=
           Len(opr.method.params) + (IF opr.op = "invokestatic" THEN 0 ELSE 1)
\* The receiver of a virtual or special invocation: the value below the
\* arguments.
InvokeReceiver ==
    FrameBefore.stack[Len(FrameBefore.stack) - Len(opr.method.params)]

\* [load-local(Reference, 0), invoke-virtual(length), return(int)]
LengthScenario == Mid("text0", <<>>, "length")

\* C11: a virtual or special invocation whose receiver, popped after the
\* arguments, is null yields "null pointer", whatever its class, method
\* name and arguments; the run of [load-local(Reference, 0),
\* invoke-virtual(length), return(int)] on a null argument ends with
\* "null pointer", at its second step.
C11_NullReceiver ==
    /\ (InvokeRan({"invokevirtual", "invokespecial"}) /\ IsNone(InvokeReceiver))
           => Ended(Len(opr.method.params) + 1, "null pointer")
    /\ (methodid = LengthScenario /\ input = <<NoneV("ref")>>)
           => /\ x <= 2
              /\ x < 2 => driver = "loop" /\ out = <<>>
              /\ x = 2 => driver = "done" /\ out = <<"null pointer">>

\* A method no class of the model emulates has been called on null.
C11_Witness ==
    /\ InvokeRan({"invokevirtual"})
    /\ IsNone(InvokeReceiver)
    /\ opr.method.name = "hashCode"
    /\ opr.method.classname = JavaLangObject
    /\ out = <<"null pointer">>

----------------------------------------------------------------------------
(* The printed line. *)

Vocabulary ==
    {"ok", "divide by zero", "assertion error", "out of bounds",
     "null pointer", "*"}

\* The run is over and did not end in an exception.
Finished == driver = "done"

OneLine ==
    /\ Len(out) <= 1
    /\ \A k \in DOMAIN out : out[k] \in Vocabulary
    /\ Finished <=> Len(out) = 1
    /\ driver = "aborted" => state = "raise"
    /\ driver = "loop" => /\ state = "State"
                          /\ x <= StepBound
                          /\ ENABLED Next

\* C12: a run that does not end in an exception prints exactly one line,
\* a word of the vocabulary; no run prints more than one line; a run that
\* has printed nothing and has not raised can still take a step or print
\* "*"; and once a step has returned an outcome (or raised) no further
\* step is taken.
C12_OneLinePerRun ==
    /\ []OneLine
    /\ [][x' # x => state = "State" /\ out = <<>>]_vars

C12_Witness ==
    /\ Finished
    /\ out = <<"out of bounds">>
    /\ state = "out of bounds"
    /\ x < StepBound

----------------------------------------------------------------------------
(* The step bound. *)

\* The entry method of n gotos, each to the next offset, and a return.
ChainScenario(n) == Mid("chain", <<n>>, "")

\* C13: step is invoked at most 1000 times; "*" is what is printed exactly
\* when the 1000th invocation, like all before it, returned the State; and
\* an outcome returned by any invocation, the 1000th included, is the one
\* line printed.
C13_StepBound ==
    /\ x <= StepBound
    /\ out = <<"*">> <=> (x = StepBound /\ state = "State" /\ driver = "done")
    /\ state \in Vocabulary \ {"*"} => out = <<state>>
    /\ (x < StepBound /\ state = "State") => out = <<>>
    /\ methodid = ChainScenario(StepBound - 1) =>
           /\ x < StepBound => out = <<>>
           /\ x = StepBound => out = <<"ok">>

C13_Witness ==
    /\ x = StepBound
    /\ opr.op = "return"
    /\ out = <<"ok">>
    /\ driver = "done"

----------------------------------------------------------------------------
(* Call targets. *)

\* The emulated set: the text operations with their argument counts, and
\* the construction of the assertion-failure type.
Emulated(m) ==
    \/ /\ m.classname = JavaLangString
       /\ <<m.name, Len(m.params)>> \in
              {<<"length", 0>>, <<"charAt", 1>>, <<"equals", 1>>,
               <<"isEmpty", 0>>, <<"substring", 1>>, <<"substring", 2>>,
               <<"indexOf", 1>>, <<"concat", 1>>}
    \/ /\ m.classname = JavaLangAssertionError
       /\ m.name = "<init>"

\* The last step was a call outside the emulated set whose receiver was
\* absent (a static call) or not null.
UnsupportedCallRan ==
    /\ InvokeRan({"invokevirtual", "invokestatic", "invokespecial"})
    /\ opr.op # "invokestatic" => ~IsNone(InvokeReceiver)
    /\ ~Emulated(opr.method)

\* C14: a virtual, static or special call outside the emulated set, with
\* a receiver that is absent or not null, ends the run in an exception:
\* nothing is printed, the run does not go on, and the PC stays.
C14_UnsupportedCallAborts ==
    UnsupportedCallRan =>
        /\ state = "raise"
        /\ driver = "aborted"
        /\ out = <<>>
        /\ FrameAfter.pc = FrameBefore.pc

----------------------------------------------------------------------------
(* The PC and the instruction list. *)

\* The last invocation of step started at an offset outside
\* 0 .. len(instructions)-1 of the top frame's method.
OffsetOutOfRange ==
    /\ x > 0
    /\ FrameBefore.pc.offset \notin
           0 .. (Len(method_opcodes(FrameBefore.pc.method)) - 1)

\* C15: a step invoked with the PC offset past the end of the method or
\* negative fails in the lookup: it ends the run in an exception, decodes
\* no instruction and changes no frame.
C15_OutOfRangePC ==
    OffsetOutOfRange =>
        /\ state = "raise"
        /\ driver = "aborted"
        /\ opr.op = "none"
        /\ frames = before
        /\ out = <<>>

\* C16: the Code Store asks the suite for the instructions of a method at
\* most once, at the first lookup for it; the sequence it got is retained
\* unchanged, and every lookup gives the instruction at the PC's offset in
\* that sequence.
C16_RequestedOnce ==
    /\ \A i, j \in DOMAIN requested : requested[i] = requested[j] => i = j
    /\ {requested[i] : i \in DOMAIN requested} = DOMAIN methods
    /\ \A m \in DOMAIN methods : methods[m] = method_opcodes(m)
    /\ x > 0 => FrameBefore.pc.method \in DOMAIN methods
    /\ opr.op # "none" =>
           opr = ListAt(methods[FrameBefore.pc.method], FrameBefore.pc.offset)

C16_Witness ==
    /\ x >= 3
    /\ opr.op # "none"
    /\ requested = <<methodid>>
    /\ DOMAIN methods = {methodid}

----------------------------------------------------------------------------
(* The call stack. *)

\* C17: step is only invoked on a non-empty call stack; the call stack is
\* empty only after a return step, and that step gave "ok", which ended
\* the run.
C17_CallStackNonEmpty ==
    /\ driver = "loop" => frames # <<>>
    /\ x > 0 => before # <<>>
    /\ frames = <<>> =>
           /\ opr.op = "return"
           /\ Len(before) = 1
           /\ state = "ok"
           /\ driver = "done"
           /\ out = <<"ok">>

C17_Witness ==
    /\ frames = <<>>
    /\ opr.op = "return"
    /\ opr.type = "int"
    /\ state = "ok"

----------------------------------------------------------------------------
(* Operand order. *)

\* C18: with a below b on the operand stack (b on top), sub pushes a - b,
\* add pushes a + b and mul pushes a * b in place of the two; the stack is
\* one shorter and the PC one further.
C18_OperandOrder ==
    (BinaryRan /\ opr.operant \in {"sub", "add", "mul"}) =>
        /\ Replaced(2, IntV(CASE opr.operant = "sub" -> Left - Right
                              [] opr.operant = "add" -> Left + Right
                              [] opr.operant = "mul" -> Left * Right))
        /\ Len(FrameAfter.stack) = Len(FrameBefore.stack) - 1

C18_Witness ==
    /\ BinaryRan
    /\ opr.operant = "sub"
    /\ Left = 2
    /\ Right = 5
    /\ FrameAfter.stack = <<IntV(-3)>>

----------------------------------------------------------------------------
(* Conditional branches. *)

\* A Boolean as 0 or 1, a Character as its code point, an Integer as
\* itself.
Coerced(v) ==
    CASE v.type = "boolean" -> IF v.i # 0 THEN 1 ELSE 0
      [] v.type = "char"    -> Ord(v.s)
      [] v.type = "int"     -> v.i

Holds(rel, a, b) ==
    CASE rel = "eq" -> a = b
      [] rel = "ne" -> a # b
      [] rel = "lt" -> a < b
      [] rel = "le" -> a <= b
      [] rel = "gt" -> a > b
      [] rel = "ge" -> a >= b

Comparable(v) == v.type \in {"boolean", "char", "int"} /\ ~IsNone(v)

\* The last step was a conditional branch over n Boolean, Character or
\* Integer values, on one of the six relations.
BranchRan(n) ==
    /\ opr.op = (IF n = 1 THEN "ifz" ELSE "if")
    /\ opr.condition \in Conditions
    /\ Len(FrameBefore.stack) >= n
    /\ \A k \in 0 .. (n - 1) :
           Comparable(FrameBefore.stack[Len(FrameBefore.stack) - k])

\* The step popped n values, pushed none, and left the PC at the target
\* offset of the same method if taken, at the next offset if not.
Branched(n, taken) ==
    /\ state = "State"
    /\ driver = "loop"
    /\ Len(frames) = Len(before)
    /\ FrameAfter.stack = SubSeq(FrameBefore.stack, 1, Len(FrameBefore.stack) - n)
    /\ FrameAfter.locals = FrameBefore.locals
    /\ FrameAfter.pc = PC(FrameBefore.pc.method,
                          IF taken THEN opr.target ELSE FrameBefore.pc.offset + 1)

\* C19: a conditional branch goes to its target exactly when the relation
\* holds of the coerced values and to the next instruction otherwise: the
\* two-value form compares the value popped second, as left, with the
\* value popped first; the zero form compares the popped value with 0.
C19_Branches ==
    /\ BranchRan(2) =>
           Branched(2, Holds(opr.condition,
                             Coerced(FrameBefore.stack[Len(FrameBefore.stack) - 1]),
                             Coerced(FrameBefore.stack[Len(FrameBefore.stack)])))
    /\ BranchRan(1) =>
           Branched(1, Holds(opr.condition,
                             Coerced(FrameBefore.stack[Len(FrameBefore.stack)]),
                             0))

C19_Witness ==
    /\ BranchRan(2)
    /\ opr.condition = "lt"
    /\ FrameBefore.stack = <<IntV(1), IntV(2)>>
    /\ FrameAfter.pc.offset = opr.target
    /\ opr.target # FrameBefore.pc.offset + 1

----------------------------------------------------------------------------
(* Duplication. *)

\* C20: a dup of word count 1 on a non-empty operand stack leaves the
\* stack one longer, its two topmost values equal to the former top, and
\* the PC one further; on an empty operand stack, or with another word
\* count, it ends the run in an exception, the stack and the PC as they
\* were.
C20_Dup ==
    opr.op = "dup" =>
        IF opr.words = 1 /\ FrameBefore.stack # <<>>
          THEN /\ Replaced(0, peek(FrameBefore.stack))
               /\ Len(FrameAfter.stack) = Len(FrameBefore.stack) + 1
               /\ FrameAfter.stack[Len(FrameAfter.stack) - 1] = peek(FrameBefore.stack)
               /\ peek(FrameAfter.stack) = peek(FrameBefore.stack)
        ELSE /\ state = "raise"
             /\ driver = "aborted"
             /\ out = <<>>
             /\ frames = before

C20_Witness ==
    /\ opr.op = "dup"
    /\ opr.words = 1
    /\ FrameBefore.stack = <<IntV(1)>>
    /\ FrameAfter.stack = <<IntV(1), IntV(1)>>

----------------------------------------------------------------------------
(* Construction. *)

\* The last step was a special invocation of <init> whose receiver, below
\* the arguments, was not null.
ConstructorRan ==
    /\ InvokeRan({"invokespecial"})
    /\ opr.method.name = "<init>"
    /\ ~IsNone(InvokeReceiver)

\* C21: a special invocation of <init> with k parameters and a non-null
\* receiver leaves the operand stack as it was but for the k arguments,
\* the receiver on top and unchanged, and the PC one further.
C21_Constructor ==
    ConstructorRan =>
        LET k == Len(opr.method.params)
        IN  /\ state = "State"
            /\ driver = "loop"
            /\ Len(frames) = Len(before)
            /\ FrameAfter.stack =
                   SubSeq(FrameBefore.stack, 1, Len(FrameBefore.stack) - k)
            /\ peek(FrameAfter.stack) = InvokeReceiver
            /\ FrameAfter.pc =
                   PC(FrameBefore.pc.method, FrameBefore.pc.offset + 1)
            /\ FrameAfter.locals = FrameBefore.locals

C21_Witness ==
    /\ ConstructorRan
    /\ Len(opr.method.params) = 1
    /\ opr.method.classname = JavaLangString
    /\ Len(FrameBefore.stack) = 2
    /\ FrameAfter.stack = <<InvokeReceiver>>

----------------------------------------------------------------------------
(* Assertions. *)

\* The entry method of a compiled assert of "local 0 > 0": the flag is
\* read at step 1 and tested at step 2, the failure is allocated at step
\* 5, duplicated, constructed and thrown at step 8.
AssertScenario == Mid("assert", <<>>, "")
\* The entry method [new, dup, invokespecial <init>, throw] of the
\* assertion-failure type.
ThrowNewScenario == Mid("throwNew", <<>>, "AssertionError")

FlagRead ==
    /\ opr.op = "get"
    /\ opr.static
    /\ opr.field = "$assertionsDisabled"

\* C22: reading the assertions-disabled flag pushes Boolean false, and the
\* branch-if-not-zero on it goes to the next instruction; allocating the
\* assertion-failure type, duplicating, constructing and throwing ends
\* the run with "assertion error" at the throw step and not before.
C22_AssertionsEnabled ==
    /\ FlagRead => Replaced(0, BoolV(FALSE))
    /\ (methodid = AssertScenario /\ x = 2) =>
           /\ opr.op = "ifz" /\ opr.condition = "ne"
           /\ peek(FrameBefore.stack) = BoolV(FALSE)
           /\ Branched(1, FALSE)
    /\ (methodid = AssertScenario /\ input[1].i <= 0) =>
           /\ x <= 8
           /\ x < 8 => driver = "loop" /\ out = <<>>
           /\ x = 8 => opr.op = "throw" /\ Ended(1, "assertion error")
    /\ methodid = ThrowNewScenario =>
           /\ x <= 4
           /\ x < 4 => driver = "loop" /\ out = <<>>
           /\ x = 4 => opr.op = "throw" /\ Ended(1, "assertion error")

C22_Witness ==
    /\ methodid = AssertScenario
    /\ input = <<IntV(0)>>
    /\ x = 8
    /\ opr.op = "throw"
    /\ out = <<"assertion error">>

----------------------------------------------------------------------------
(* Faults. *)

Faults == {"divide by zero", "null pointer", "out of bounds", "assertion error"}

\* C23: a step that returns one of the four faults leaves the depth of the
\* call stack, the top frame's PC and local slots, and the heap as they
\* were; and the top frame's PC differs from what it was only after a step
\* that returned the State.
C23_FaultKeepsPC ==
    /\ state \in Faults =>
           /\ x > 0
           /\ Len(frames) = Len(before)
           /\ FrameAfter.pc = FrameBefore.pc
           /\ FrameAfter.locals = FrameBefore.locals
           /\ heap = <<>>
    /\ (x > 0 /\ frames # <<>> /\ FrameAfter.pc # FrameBefore.pc) =>
           state = "State"

C23_Witness ==
    /\ state = "out of bounds"
    /\ opr.op = "invokevirtual"
    /\ FrameBefore.pc.offset > 0
    /\ FrameAfter.pc = FrameBefore.pc
    /\ FrameBefore.locals # <<>>

----------------------------------------------------------------------------
(* Text operations with a Reference argument. *)

\* The last step was a virtual invocation of the String method name with
\* one Reference argument, a text or null, on a text receiver.
TextArgCallRan(name) ==
    /\ opr.op = "invokevirtual"
    /\ opr.method.classname = JavaLangString
    /\ opr.method.name = name
    /\ Len(opr.method.params) = 1
    /\ Len(FrameBefore.stack) >= 2
    /\ FrameBefore.stack[Len(FrameBefore.stack) - 1].type = "ref"
    /\ FrameBefore.stack[Len(FrameBefore.stack) - 1].kind = "str"
    /\ peek(FrameBefore.stack).type = "ref"
    /\ peek(FrameBefore.stack).kind \in {"str", "none"}
Other == peek(FrameBefore.stack)

\* o occurs in s at the 0-based position p.
OccursAt(o, s, p) ==
    /\ p + Len(o) <= Len(s)
    /\ \A j \in 1 .. Len(o) : s[p + j] = o[j]

FirstIndexOf(o, s) ==
    IF \E p \in 0 .. Len(s) : OccursAt(o, s, p)
      THEN CHOOSE p \in 0 .. Len(s) :
               /\ OccursAt(o, s, p)
               /\ \A q \in 0 .. (p - 1) : ~OccursAt(o, s, q)
    ELSE -1

\* C24: on a text s, equals(o) pushes Boolean false for a null o and
\* Boolean (s = o) otherwise; indexOf(o) and concat(o) give "null pointer"
\* for a null o; otherwise indexOf pushes the least position at which o
\* occurs in s, or -1 if it does not occur, and concat pushes a Reference
\* to s followed by o.
C24_TextArgument ==
    /\ TextArgCallRan("equals") =>
           IF IsNone(Other) THEN Replaced(2, BoolV(FALSE))
           ELSE Replaced(2, BoolV(Receiver(1) = Other.s))
    /\ TextArgCallRan("indexOf") =>
           IF IsNone(Other) THEN Ended(2, "null pointer")
           ELSE Replaced(2, IntV(FirstIndexOf(Other.s, Receiver(1))))
    /\ TextArgCallRan("concat") =>
           IF IsNone(Other) THEN Ended(2, "null pointer")
           ELSE Replaced(2, RefV(Receiver(1) \o Other.s))

C24_Witness ==
    /\ TextArgCallRan("indexOf")
    /\ Receiver(1) = <<"a", "a">>
    /\ Other = RefV(<<"a">>)
    /\ peek(FrameAfter.stack) = IntV(0)

----------------------------------------------------------------------------
(* The initial State. *)

\* C25: before the first step the State has one frame, whose local slots
\* 0 .. k-1 hold the k arguments in order and no other slot is set, whose
\* operand stack is empty and whose PC is offset 0 of the entry method;
\* the heap is empty.
C25_InitialState ==
    x = 0 =>
        /\ Len(frames) = 1
        /\ DOMAIN frames[1].locals = 0 .. (Len(input) - 1)
        /\ \A k \in 0 .. (Len(input) - 1) : frames[1].locals[k] = input[k + 1]
        /\ frames[1].stack = <<>>
        /\ frames[1].pc.method = methodid
        /\ frames[1].pc.offset = 0
        /\ heap = <<>>
        /\ state = "State"

C25_Witness ==
    /\ x = 0
    /\ Len(input) = 2
    /\ input[1] # input[2]
    /\ frames[1].locals[0] = input[1]
    /\ frames[1].locals[1] = input[2]

----------------------------------------------------------------------------
(* The depth of the call stack. *)

\* C26: step is only invoked on a call stack of exactly one frame, whose
\* PC is in the entry method; no step leaves more than one frame, an
\* invocation included, and no return step finds a caller to go on in.
C26_SingleFrame ==
    /\ Len(frames) <= 1
    /\ driver = "loop" =>
           /\ Len(frames) = 1
           /\ frames[1].pc.method = methodid
    /\ x > 0 =>
           /\ Len(before) = 1
           /\ before[1].pc.method = methodid
    /\ opr.op = "return" => state \in {"ok", "raise"}

C26_Witness ==
    /\ opr.op = "invokevirtual"
    /\ state = "State"
    /\ driver = "loop"
    /\ Len(frames) = 1
    /\ frames[1].pc.method = methodid
    /\ frames[1].pc.offset = before[1].pc.offset + 1

----------------------------------------------------------------------------
(* Integers beyond 32 bits. *)

\* Pairwise coprime moduli whose product exceeds 2^89.
Moduli == {32749, 32719, 32717, 32713, 32707, 32693}

\* The magnitude and the Integer modulo m.
RECURSIVE MagResidue(_, _)
MagResidue(mag, m) ==
    IF mag = <<>> THEN 0
    ELSE (Head(mag) + Base * MagResidue(Tail(mag), m)) % m
Residue(v, m) ==
    IF IsNeg(v) THEN (m - MagResidue(v.s, m)) % m ELSE MagResidue(v.s, m)

\* An Integer of magnitude below 2^75, written in the one way.
WellFormed(v) ==
    /\ v.type = "int"
    /\ Len(v.s) <= 5
    /\ \A k \in DOMAIN v.s : v.s[k] \in 0 .. (Base - 1)
    /\ v.s # <<>> => v.s[Len(v.s)] # 0
    /\ v.i \in {-1, 1}
    /\ v.s = <<>> => v.i = 1

\* Within -2^31 .. 2^31 - 1.
InRange32(v) ==
    \/ Len(v.s) <= 2
    \/ Len(v.s) = 3 /\ v.s[3] < 2
    \/ IsNeg(v) /\ v.s = <<0, 0, 2>>

BigBinaryRan ==
    /\ opr.op = "binary"
    /\ opr.operant \in {"add", "sub", "mul"}
    /\ Len(FrameBefore.stack) = 2
    /\ InRange32(FrameBefore.stack[1])
    /\ InRange32(FrameBefore.stack[2])

\* C27: add, sub and mul on Integers within the signed 32-bit range push
\* the exact sum, difference and product (an Integer of magnitude below
\* 2^75 that agrees with it modulo each of six coprime moduli, whose product
\* exceeds 2^89, is it), also when it lies outside that range:
\* 2147483647 + 1 pushes 2147483648 and not -2147483648.
C27_NoWraparound ==
    BigBinaryRan =>
        LET a == FrameBefore.stack[1]
            b == FrameBefore.stack[2]
            r == peek(FrameAfter.stack)
        IN  /\ state = "State"
            /\ Len(FrameAfter.stack) = 1
            /\ WellFormed(r)
            /\ \A m \in Moduli :
                   Residue(r, m) =
                       CASE opr.operant = "add" ->
                                (Residue(a, m) + Residue(b, m)) % m
                         [] opr.operant = "sub" ->
                                (Residue(a, m) - Residue(b, m) + m) % m
                         [] opr.operant = "mul" ->
                                (Residue(a, m) * Residue(b, m)) % m
            /\ (opr.operant = "add" /\ a = BigV(FALSE, <<32767, 32767, 1>>)
                                    /\ b = BigV(FALSE, <<1>>)) =>
                   /\ r = BigV(FALSE, <<0, 0, 2>>)
                   /\ r # BigV(TRUE, <<0, 0, 2>>)
                   /\ ~InRange32(r)

C27_Witness ==
    /\ BigBinaryRan
    /\ opr.operant = "add"
    /\ FrameBefore.stack = <<BigV(FALSE, <<32767, 32767, 1>>), BigV(FALSE, <<1>>)>>
    /\ FrameAfter.stack = <<BigV(FALSE, <<0, 0, 2>>)>>
    /\ ~InRange32(peek(FrameAfter.stack))

====
